---- MODULE Spec2Model ----
(***************************************************************************)
(* Auto-Builder API: the POST /api-endpoint handler and the pipeline it    *)
(* runs after the acknowledgment (writeAttachments, generateFilesWithLLM,  *)
(* createGithubRepoAndPush, notifyEvaluationUrl).                          *)
(*                                                                         *)
(* The repository holds two versions of the server: src/server.js and      *)
(* src/unnamed/part_000.  They differ in one place that changes behaviour: *)
(* server.js calls require('path') inside an ES module, part_000 imports   *)
(* path.  env.build says which of the two is running.                      *)
(***************************************************************************)
EXTENDS Integers, Sequences, FiniteSets, TLC

(***************************************************************************)
(* Bounds of the model.                                                    *)
(***************************************************************************)
MaxJobs == 1
MaxAttachments == 1
MaxConcurrent == 2
MaxHead == 2

\* the requests of the specification Spec, and the requests handled at the
\* same time in the specification SpecConc
Jobs == 1..MaxJobs
ConcJobs == 1..MaxConcurrent
AllJobs == Jobs \cup ConcJobs

(***************************************************************************)
(* JavaScript values, tagged with their type.                              *)
(***************************************************************************)
Undef == [type |-> "undefined", val |-> ""]
Null == [type |-> "null", val |-> ""]
Str(s) == [type |-> "string", val |-> s]
Num(n) == [type |-> "number", val |-> n]
Arr(a) == [type |-> "array", val |-> a]
Obj(o) == [type |-> "object", val |-> o]

\* ToBoolean of a JavaScript value
Truthy(v) ==
  CASE v.type = "undefined" -> FALSE
    [] v.type = "null" -> FALSE
    [] v.type = "string" -> v.val # ""
    [] v.type = "number" -> v.val # 0
    [] OTHER -> TRUE

\* a || b
Or(a, b) == IF Truthy(a) THEN a ELSE b

(***************************************************************************)
(* Configuration.                                                          *)
(***************************************************************************)
DEFAULT_SECRET == Str("demo-secret")

maxRetries == 5

InitialDelay == 1000

SlugLength == 40

Radix == 36

FragmentLength == 6

\* studentSecrets: the Map filled at start-up; get() of a missing key is undefined
studentSecrets(email) ==
  IF email = Str("student@example.com") THEN DEFAULT_SECRET ELSE Undef

verifySecret(email, secret) ==
  LET expected == Or(studentSecrets(email), DEFAULT_SECRET)
  IN  secret = expected

(***************************************************************************)
(* Strings as sequences of characters, for the functions that work on      *)
(* characters: shortName and Number.prototype.toString(36).                *)
(***************************************************************************)
Digits == <<"0", "1", "2", "3", "4", "5", "6", "7", "8", "9">>

LowerCase ==
  <<"a", "b", "c", "d", "e", "f", "g", "h", "i", "j", "k", "l", "m",
    "n", "o", "p", "q", "r", "s", "t", "u", "v", "w", "x", "y", "z">>

UpperCase ==
  <<"A", "B", "C", "D", "E", "F", "G", "H", "I", "J", "K", "L", "M",
    "N", "O", "P", "Q", "R", "S", "T", "U", "V", "W", "X", "Y", "Z">>

Elems(cs) == {cs[k] : k \in DOMAIN cs}

\* the characters of the task names the requests of the model carry
CodeUnits(text) ==
  CASE text = "My Task" -> <<"M", "y", " ", "T", "a", "s", "k">>
    [] text = "task" -> <<"t", "a", "s", "k">>

\* the class [a-z0-9-] of the regular expression, under its i flag
InClass(c) == c \in Elems(LowerCase) \cup Elems(UpperCase) \cup Elems(Digits) \cup {"-"}

\* .replace(/[^a-z0-9-]/gi, '-')
Replace(cs) == [k \in DOMAIN cs |-> IF InClass(cs[k]) THEN cs[k] ELSE "-"]

\* .toLowerCase()
toLowerCase(cs) ==
  [k \in DOMAIN cs |->
     IF cs[k] \in Elems(UpperCase)
       THEN LowerCase[CHOOSE n \in DOMAIN UpperCase : UpperCase[n] = cs[k]]
       ELSE cs[k]]

\* .slice(0, n)
SliceTo(cs, n) == SubSeq(cs, 1, IF Len(cs) < n THEN Len(cs) ELSE n)

\* .slice(-n)
SliceLast(cs, n) == SubSeq(cs, IF Len(cs) < n THEN 1 ELSE Len(cs) - n + 1, Len(cs))

\* shortName with the lower-casing left out
shortName_KeepCase(task) ==
  SliceTo(Replace(IF task = <<>> THEN CodeUnits("task") ELSE task), SlugLength)

\* shortName(task), on the characters of task
shortName(task) ==
  SliceTo(toLowerCase(Replace(IF task = <<>> THEN CodeUnits("task") ELSE task)), SlugLength)

\* n.toString(36) of a non-negative integer
RECURSIVE ToString36(_)
ToString36(n) ==
  IF n < Radix THEN <<(Digits \o LowerCase)[n + 1]>>
  ELSE Append(ToString36(n \div Radix), (Digits \o LowerCase)[(n % Radix) + 1])

\* A value of Date.now() is hi * Limb + lo milliseconds, with lo < Limb: the
\* two parts keep the arithmetic within 32 bits.
Limb == Radix * Radix * Radix * Radix

PadStart(cs, n) == [k \in 1..(n - Len(cs)) |-> "0"] \o cs

\* Date.now().toString(36)
DateToString36(t) ==
  IF t.hi = 0 THEN ToString36(t.lo)
  ELSE ToString36(t.hi) \o PadStart(ToString36(t.lo), 4)

\* `${shortName(task)}-${Date.now().toString(36).slice(-6)}`
RepoName(task, t) ==
  shortName(task) \o <<"-">> \o SliceLast(DateToString36(t), FragmentLength)

\* Readings of the clock: a millisecond in November 2026 and the next
\* millisecond, which carries into hi.
Times ==
  {[hi |-> 1068100, lo |-> Limb - 1],
   [hi |-> 1068101, lo |-> 0]}

Before(a, b) == a.hi < b.hi \/ (a.hi = b.hi /\ a.lo < b.lo)

FirstTime == CHOOSE t \in Times : \A u \in Times \ {t} : Before(t, u)

(***************************************************************************)
(* Paths as sequences of segments.                                         *)
(***************************************************************************)
\* the segments of the attachment names the requests of the model carry
Segments(name) ==
  CASE name = "data.csv" -> <<"data.csv">>
    [] name = "logo.png" -> <<"logo.png">>
    [] name = "../escape.sh" -> <<"..", "escape.sh">>

\* the file a path names: each .. segment leaves the directory reached so far
RECURSIVE Resolve(_)
Resolve(path) ==
  IF path = <<>> THEN <<>>
  ELSE LET init == Resolve(SubSeq(path, 1, Len(path) - 1))
           last == path[Len(path)]
       IN  IF last = ".." THEN SubSeq(init, 1, Len(init) - 1)
           ELSE IF last = "." THEN init
           ELSE Append(init, last)

\* the file is in the directory or below it
Inside(path, dir) == Len(path) > Len(dir) /\ SubSeq(path, 1, Len(dir)) = dir

\* tmp.dirSync(): a new directory under the system's temporary directory, with
\* a name no existing entry has.  "a" is the directory of the handler, "b" the
\* one of createGithubRepoAndPush.
TmpDir(j, use) == <<"tmp", "tmp-" \o ToString(j) \o use>>

(***************************************************************************)
(* Requests a client may send.                                             *)
(***************************************************************************)
RequiredFields == {"email", "task", "round", "nonce", "evaluation_url"}

\* the urls that are well-formed data URIs
DataUris == {"data:text/csv;base64,YSxi"}

GoodAttachment == [name |-> Str("data.csv"), url |-> Str("data:text/csv;base64,YSxi")]
NamelessAttachment == [name |-> Undef, url |-> Str("data:text/csv;base64,YSxi")]
BrokenAttachment == [name |-> Str("logo.png"), url |-> Str("not-a-data-uri")]

TraversalAttachment == [name |-> Str("../escape.sh"), url |-> Str("data:text/csv;base64,YSxi")]

AttachmentKinds == {GoodAttachment, NamelessAttachment, BrokenAttachment, TraversalAttachment}

RECURSIVE SeqsUpTo(_, _)
SeqsUpTo(S, n) ==
  IF n = 0 THEN {<<>>}
  ELSE LET shorter == SeqsUpTo(S, n - 1)
       IN  shorter \cup {Append(s, x) : s \in {t \in shorter : Len(t) = n - 1}, x \in S}

\* requests that exercise the validation: every combination of the required
\* fields and the secret, each absent, falsy or acceptable
ValidationRequests ==
  [email : {Undef, Str("student@example.com"), Str("other@example.com")},
   secret : {Undef, Str("demo-secret"), Str("wrong")},
   task : {Undef, Str("My Task")},
   round : {Undef, Num(0), Num(1)},
   nonce : {Undef, Str(""), Str("n1")},
   brief : {Undef},
   evaluation_url : {Undef, Str("http://test/cb")},
   attachments : {Undef}]

\* requests that exercise the pipeline: every combination of the optional fields
PipelineRequests ==
  [email : {Str("student@example.com")},
   secret : {Str("demo-secret")},
   task : {Str("My Task")},
   round : {Num(1)},
   nonce : {Str("n1")},
   brief : {Undef, Str("todo app")},
   evaluation_url : {Str("http://test/cb")},
   attachments : {Undef} \cup {Arr(a) : a \in SeqsUpTo(AttachmentKinds, MaxAttachments)}]

Requests == ValidationRequests \cup PipelineRequests

\* the end-to-end request: complete, with the right secret and no attachments
EndToEndRequest ==
  [email |-> Str("student@example.com"), secret |-> Str("demo-secret"),
   task |-> Str("My Task"), round |-> Num(1), nonce |-> Str("n1"),
   brief |-> Str("todo app"), evaluation_url |-> Str("http://test/cb"),
   attachments |-> Undef]

\* the first request is any of Requests; the requests handled at the same time
\* as it are end-to-end requests
Pool(j) == IF j = 1 THEN Requests ELSE {EndToEndRequest}

\* the requests handled at the same time: the end-to-end request, the same
\* request with another nonce, and one with a wrong secret
ConcPool ==
  {EndToEndRequest,
   [EndToEndRequest EXCEPT !.nonce = Str("n2")],
   [EndToEndRequest EXCEPT !.secret = Str("wrong")]}

EmptyPayload ==
  [email |-> Undef, secret |-> Undef, task |-> Undef, round |-> Undef, nonce |-> Undef,
   brief |-> Undef, evaluation_url |-> Undef, attachments |-> Undef]

(***************************************************************************)
(* What the world outside the process may do.                              *)
(***************************************************************************)
\* build: which of the two versions runs; openai: whether OPENAI_API_KEY is set;
\* world: whether the disk, the repository host and the callback target always
\* answer favourably, or may fail
Environments ==
  [build : {"server.js", "part_000"},
   openai : BOOLEAN,
   world : {"cooperative", "unreliable"}]

\* the web URL and the commit identifier the repository host answers with
HostUrls == {"https://github.com/u/my-task"}
HostShas == {"c0ffee"}

\* replies of the generation backend: the call rejects, or it returns a text
BackendTexts ==
  {"{\"files\":[{\"path\":\"app.js\",\"content\":\"x\"}],\"readme\":\"# App\"}",
   "{\"files\":[]}",
   "{}",
   "null",
   "Sure! Here is your app"}

BackendReplies == {"reject"} \cup BackendTexts

\* env: the configuration and the outside world, fixed at start-up
\* pc: where the handler of each request stands; req: its request body;
\* response: what it answered; error: what its catch block logged
\* written, generated, files, readme, repo, result, notifyBody, i, delay: the
\*   locals of the handler and of the functions it awaits
\* repos: the repositories that exist on the host
\* log, backend, posts, waits: history of each request: the calls the handler
\*   made, the reply of the generation backend, the POSTs sent to the callback
\*   URL and the delays waited
\* now: the reading of the clock; repoName: the repository name of each request
\* dirs: the temporary directories that exist
\* taskName, derived: a task name and the repository name derived from it
VARIABLES env, pc, req, response, log, written, generated, files, readme,
          repo, result, notifyBody, i, delay, posts, waits, error, repos, backend,
          now, repoName, dirs, taskName, derived

vars == <<env, pc, req, response, log, written, generated, files, readme,
          repo, result, notifyBody, i, delay, posts, waits, error, repos, backend,
          now, repoName, dirs, taskName, derived>>

NoResponse == [status |-> 0, json |-> <<>>]
NoResult == [repo_url |-> Undef, commit_sha |-> Undef]

\* the server after start-up: no request received yet
Idle ==
  /\ env \in Environments
  /\ pc = [j \in AllJobs |-> "idle"]
  /\ req = [j \in AllJobs |-> EmptyPayload]
  /\ response = [j \in AllJobs |-> NoResponse]
  /\ log = [j \in AllJobs |-> <<>>]
  /\ written = [j \in AllJobs |-> <<>>]
  /\ generated = [j \in AllJobs |-> Undef]
  /\ files = [j \in AllJobs |-> <<>>]
  /\ readme = [j \in AllJobs |-> Undef]
  /\ repo = [j \in AllJobs |-> Undef]
  /\ result = [j \in AllJobs |-> NoResult]
  /\ notifyBody = [j \in AllJobs |-> Undef]
  /\ i = [j \in AllJobs |-> 0]
  /\ delay = [j \in AllJobs |-> 0]
  /\ posts = [j \in AllJobs |-> <<>>]
  /\ waits = [j \in AllJobs |-> <<>>]
  /\ error = [j \in AllJobs |-> ""]
  /\ repos = {}
  /\ backend = [j \in AllJobs |-> "none"]
  /\ repoName = [j \in AllJobs |-> <<>>]
  /\ dirs = {}

Init ==
  /\ Idle
  /\ now = FirstTime
  /\ taskName = <<>>
  /\ derived = <<>>


(***************************************************************************)
(* Helpers on sequences.                                                   *)
(***************************************************************************)
Has(s, e) == \E k \in DOMAIN s : s[k] = e

Count(s, e) == Cardinality({k \in DOMAIN s : s[k] = e})

Terminal(j) == pc[j] \in {"closed", "done", "failed"}

(***************************************************************************)
(* app.post('/api-endpoint'): the synchronous part of the handler.         *)
(***************************************************************************)
\* the required-field test without evaluation_url
MissingRequired_NoUrl(p) == \E f \in RequiredFields \ {"evaluation_url"} : ~Truthy(p[f])

\* !email || !task || !round || !nonce || !evaluation_url
MissingRequired(p) == \E f \in RequiredFields : ~Truthy(p[f])

Json(status, key, value) == [status |-> status, json |-> <<key, value>>]

\* the catch block of the handler: console.error('Processing failed:', err)
Catch(j, err) ==
  /\ pc' = [pc EXCEPT ![j] = "failed"]
  /\ error' = [error EXCEPT ![j] = err]

\* the handler refusing a submission whose (email, task, round, nonce) it has
\* already accepted
Receive_Dedup(j, p) ==
  /\ pc[j] = "idle"
  /\ req' = [req EXCEPT ![j] = p]
  /\ IF MissingRequired(p)
       THEN /\ response' = [response EXCEPT ![j] = Json(400, "error", "missing required fields")]
            /\ pc' = [pc EXCEPT ![j] = "closed"]
            /\ UNCHANGED <<log, dirs>>
       ELSE IF ~verifySecret(p.email, p.secret)
       THEN /\ response' = [response EXCEPT ![j] = Json(401, "error", "invalid secret")]
            /\ pc' = [pc EXCEPT ![j] = "closed"]
            /\ UNCHANGED <<log, dirs>>
       ELSE IF \E k \in AllJobs \ {j} :
                 /\ response[k] = Json(200, "status", "accepted")
                 /\ <<req[k].email, req[k].task, req[k].round, req[k].nonce>> =
                      <<p.email, p.task, p.round, p.nonce>>
       THEN /\ response' = [response EXCEPT ![j] = Json(409, "error", "duplicate")]
            /\ pc' = [pc EXCEPT ![j] = "closed"]
            /\ UNCHANGED <<log, dirs>>
       ELSE /\ response' = [response EXCEPT ![j] = Json(200, "status", "accepted")]
            /\ pc' = [pc EXCEPT ![j] = "writeAttachments"]
            /\ log' = [log EXCEPT ![j] = <<"accepted", "writeAttachments">>]
            /\ dirs' = dirs \cup {TmpDir(j, "a")}
  /\ UNCHANGED <<env, written, generated, files, readme, repo, result, notifyBody,
                 i, delay, posts, waits, error, repos, backend>>
  /\ UNCHANGED <<now, repoName, taskName, derived>>

\* the handler holding its response until the pipeline has run
Receive_AnswerLater(j, p) ==
  /\ pc[j] = "idle"
  /\ req' = [req EXCEPT ![j] = p]
  /\ IF MissingRequired(p)
       THEN /\ response' = [response EXCEPT ![j] = Json(400, "error", "missing required fields")]
            /\ pc' = [pc EXCEPT ![j] = "closed"]
            /\ log' = log
       ELSE IF ~verifySecret(p.email, p.secret)
       THEN /\ response' = [response EXCEPT ![j] = Json(401, "error", "invalid secret")]
            /\ pc' = [pc EXCEPT ![j] = "closed"]
            /\ log' = log
       ELSE /\ response' = response
            /\ pc' = [pc EXCEPT ![j] = "writeAttachments"]
            /\ log' = [log EXCEPT ![j] = <<"writeAttachments">>]
  /\ UNCHANGED <<env, written, generated, files, readme, repo, result, notifyBody,
                 i, delay, posts, waits, error, repos, backend>>
  /\ dirs' = IF MissingRequired(p) \/ ~verifySecret(p.email, p.secret)
                THEN dirs ELSE dirs \cup {TmpDir(j, "a")}
  /\ UNCHANGED <<now, repoName, taskName, derived>>

\* The handler from its entry to its first suspension: it answers 400, 401 or
\* 200 and, after a 200, creates its temporary directory and calls
\* writeAttachments.
Receive(j, p) ==
  /\ pc[j] = "idle"
  /\ req' = [req EXCEPT ![j] = p]
  /\ IF MissingRequired(p)
       THEN /\ response' = [response EXCEPT ![j] = Json(400, "error", "missing required fields")]
            /\ pc' = [pc EXCEPT ![j] = "closed"]
            /\ log' = log
       ELSE IF ~verifySecret(p.email, p.secret)
       THEN /\ response' = [response EXCEPT ![j] = Json(401, "error", "invalid secret")]
            /\ pc' = [pc EXCEPT ![j] = "closed"]
            /\ log' = log
       ELSE /\ response' = [response EXCEPT ![j] = Json(200, "status", "accepted")]
            /\ pc' = [pc EXCEPT ![j] = "writeAttachments"]
            /\ log' = [log EXCEPT ![j] = <<"accepted", "writeAttachments">>]
  /\ UNCHANGED <<env, written, generated, files, readme, repo, result, notifyBody,
                 i, delay, posts, waits, error, repos, backend>>
  /\ dirs' = IF MissingRequired(p) \/ ~verifySecret(p.email, p.secret)
                THEN dirs ELSE dirs \cup {TmpDir(j, "a")}
  /\ UNCHANGED <<now, repoName, taskName, derived>>

(***************************************************************************)
(* writeAttachments                                                        *)
(***************************************************************************)
\* what parser.parse does with a url: it decodes a data URI and throws on
\* anything else
Decodable(url) == url.type = "string" /\ url.val \in DataUris

AttachmentList(p) == Or(p.attachments, Arr(<<>>)).val

\* the attachments that are not skipped by  if (!name || !url) continue
Writable(atts) == SelectSeq(atts, LAMBDA a : Truthy(a.name) /\ Truthy(a.url))

\* `${targetDir}/${name}` in server.js, path.join(targetDir, name), which
\* normalizes the path, in part_000
FilePath(build, targetDir, a) ==
  IF build = "server.js" THEN targetDir \o Segments(a.name.val)
  ELSE Resolve(targetDir \o Segments(a.name.val))

\* writeAttachments returns the list of the paths it wrote
WriteAttachmentsReturns(j) ==
  /\ pc[j] = "writeAttachments"
  /\ LET todo == Writable(AttachmentList(req[j]))
     IN  /\ \A k \in DOMAIN todo : Decodable(todo[k].url)
         /\ written' = [written EXCEPT ![j] = [k \in DOMAIN todo |-> FilePath(env.build, TmpDir(j, "a"), todo[k])]]
  /\ pc' = [pc EXCEPT ![j] = "generate"]
  /\ log' = [log EXCEPT ![j] = Append(@, "generateFilesWithLLM")]
  /\ UNCHANGED <<env, req, response, generated, files, readme, repo, result,
                 notifyBody, i, delay, posts, waits, error, repos, backend>>
  /\ UNCHANGED <<now, repoName, dirs, taskName, derived>>

\* writeAttachments throws: parser.parse rejects a url, or ensureDir or
\* writeFile fails; the error reaches the catch block of the handler
WriteAttachmentsThrows(j) ==
  /\ pc[j] = "writeAttachments"
  /\ LET todo == Writable(AttachmentList(req[j]))
     IN  \/ \E k \in DOMAIN todo : ~Decodable(todo[k].url)
         \/ env.world = "unreliable"
  /\ Catch(j, "writeAttachments")
  /\ UNCHANGED <<env, req, response, log, written, generated, files, readme, repo,
                 result, notifyBody, i, delay, posts, waits, repos, backend>>
  /\ UNCHANGED <<now, repoName, dirs, taskName, derived>>

(***************************************************************************)
(* generateFilesWithLLM                                                    *)
(***************************************************************************)
File(path, content) == [path |-> path, content |-> content]

ArtifactSet(fs, rd) == Obj([files |-> fs, readme |-> rd])

\* the mock app returned when no OpenAI key is configured
MockApp(brief) ==
  ArtifactSet(Arr(<<File("index.html", "<h1>Auto-generated app</h1><p>" \o brief.val \o "</p>")>>),
              Str("# Auto-generated app\n\nBrief: " \o brief.val))

\* the artifact set returned when JSON.parse throws
ParseFailedApp ==
  ArtifactSet(Arr(<<File("index.html", "<h1>Generated app</h1><p>Failed to parse LLM output. See server logs.</p>")>>),
              Str("# Auto app\n\n(LLM output parse failed)"))

\* JSON.parse on the texts of BackendTexts: the parsed value, or a SyntaxError
JSONParse(text) ==
  CASE text = "{\"files\":[{\"path\":\"app.js\",\"content\":\"x\"}],\"readme\":\"# App\"}" ->
         [threw |-> FALSE, value |-> ArtifactSet(Arr(<<File("app.js", "x")>>), Str("# App"))]
    [] text = "{\"files\":[]}" ->
         [threw |-> FALSE, value |-> ArtifactSet(Arr(<<>>), Undef)]
    [] text = "{}" ->
         [threw |-> FALSE, value |-> ArtifactSet(Undef, Undef)]
    [] text = "null" ->
         [threw |-> FALSE, value |-> Null]
    [] OTHER ->
         [threw |-> TRUE, value |-> Undef]

\* generateFilesWithLLM(brief, attachments), given whether the openai client
\* exists and what the backend replies: the value returned, or threw = TRUE when
\* the awaited backend call rejects (the call is outside the try block)
generateFilesWithLLM(openai, brief, reply) ==
  IF ~openai THEN [threw |-> FALSE, value |-> MockApp(brief)]
  ELSE IF reply = "reject" THEN [threw |-> TRUE, value |-> Undef]
  ELSE LET parsed == JSONParse(reply)
       IN  IF parsed.threw THEN [threw |-> FALSE, value |-> ParseFailedApp]
           ELSE [threw |-> FALSE, value |-> parsed.value]

\* generated.files and generated.readme throw a TypeError on null
HasProperties(v) == v.type \notin {"null", "undefined"}

\* the handler calling createGithubRepoAndPush without awaiting it: it goes on
\* to build the payload and to notify while the publisher has not returned
Generate_PublishNotAwaited(j, reply) ==
  /\ pc[j] = "generate"
  /\ reply \in (IF env.openai THEN BackendReplies ELSE {"no backend"})
  /\ backend' = [backend EXCEPT ![j] = reply]
  /\ LET brief == Or(req[j].brief, Str("Auto app"))
         out == generateFilesWithLLM(env.openai, brief, reply)
     IN  IF out.threw \/ ~HasProperties(out.value)
           THEN /\ Catch(j, "generateFilesWithLLM")
                /\ UNCHANGED <<generated, files, readme, log, repoName, notifyBody, i, delay>>
         ELSE /\ generated' = [generated EXCEPT ![j] = out.value]
              /\ files' = [files EXCEPT ![j] = Or(out.value.val.files, Arr(<<>>)).val]
              /\ readme' = [readme EXCEPT ![j] = Or(out.value.val.readme, Str(""))]
              /\ repoName' = [repoName EXCEPT ![j] = RepoName(CodeUnits(req[j].task.val), now)]
              /\ notifyBody' = [notifyBody EXCEPT ![j] =
                                  [email |-> req[j].email, task |-> req[j].task,
                                   round |-> req[j].round, nonce |-> req[j].nonce,
                                   repo_url |-> Undef, commit_sha |-> Undef,
                                   deploy_url |-> Null]]
              /\ i' = [i EXCEPT ![j] = 0]
              /\ delay' = [delay EXCEPT ![j] = InitialDelay]
              /\ pc' = [pc EXCEPT ![j] = "post"]
              /\ log' = [log EXCEPT ![j] = @ \o <<"createGithubRepoAndPush", "notifyEvaluationUrl">>]
              /\ error' = error
  /\ UNCHANGED <<env, req, response, written, repo, result, posts, waits, repos>>
  /\ UNCHANGED <<now, dirs, taskName, derived>>

\* The generator returns or throws; then the handler takes files and readme
\* from the result, derives the repository name from the task and the clock
\* and calls createGithubRepoAndPush, which starts with the create-repository
\* request.
Generate(j, reply) ==
  /\ pc[j] = "generate"
  /\ reply \in (IF env.openai THEN BackendReplies ELSE {"no backend"})
  /\ backend' = [backend EXCEPT ![j] = reply]
  /\ LET brief == Or(req[j].brief, Str("Auto app"))
         out == generateFilesWithLLM(env.openai, brief, reply)
     IN  IF out.threw
           THEN /\ Catch(j, "generateFilesWithLLM")
                /\ UNCHANGED <<generated, files, readme, log, repoName>>
         ELSE IF ~HasProperties(out.value)
           THEN /\ Catch(j, "TypeError")
                /\ generated' = [generated EXCEPT ![j] = out.value]
                /\ UNCHANGED <<files, readme, log, repoName>>
         ELSE /\ generated' = [generated EXCEPT ![j] = out.value]
              /\ files' = [files EXCEPT ![j] = Or(out.value.val.files, Arr(<<>>)).val]
              /\ readme' = [readme EXCEPT ![j] =
                              Or(out.value.val.readme,
                                 Str("# Auto-generated app\n\n" \o Or(req[j].brief, Str("")).val))]
              /\ repoName' = [repoName EXCEPT ![j] = RepoName(CodeUnits(req[j].task.val), now)]
              /\ pc' = [pc EXCEPT ![j] = "createRepo"]
              /\ log' = [log EXCEPT ![j] = Append(@, "createGithubRepoAndPush")]
              /\ error' = error
  /\ UNCHANGED <<env, req, response, written, repo, result, notifyBody, i, delay,
                 posts, waits, repos>>
  /\ UNCHANGED <<now, dirs, taskName, derived>>

(***************************************************************************)
(* createGithubRepoAndPush                                                 *)
(***************************************************************************)
HostAnswers == IF env.world = "cooperative" THEN {"ok"} ELSE {"ok", "rejected"}

\* the account already has a repository of that name
NameTaken(name) == \E r \in repos : r.name = name

\* octokit.repos.createForAuthenticatedUser: the host creates the repository
\* or rejects the request; it rejects every request for a name that is taken
CreateRepo(j, answer, url) ==
  /\ pc[j] = "createRepo"
  /\ answer \in HostAnswers
  /\ IF answer = "ok" /\ ~NameTaken(repoName[j])
       THEN /\ repo' = [repo EXCEPT ![j] = Str(url)]
            /\ repos' = repos \cup {[job |-> j, name |-> repoName[j], html_url |-> url,
                                     pushed |-> FALSE]}
            /\ pc' = [pc EXCEPT ![j] = "writeTree"]
            /\ error' = error
       ELSE /\ Catch(j, "createForAuthenticatedUser")
            /\ UNCHANGED <<repo, repos>>
  /\ UNCHANGED <<env, req, response, log, written, generated, files, readme, result,
                 notifyBody, i, delay, posts, waits, backend>>
  /\ UNCHANGED <<now, repoName, dirs, taskName, derived>>

\* require is not defined in an ES module: server.js evaluates
\* require('path') for each file, part_000 uses the imported path
PathAvailable(build) == build # "server.js"

\* The local working tree: every file, README.md and LICENSE are written,
\* then git init, add, commit and addRemote run.
WriteTree(j, diskOk) ==
  /\ pc[j] = "writeTree"
  /\ diskOk \/ env.world = "unreliable"
  /\ IF files[j] # <<>> /\ ~PathAvailable(env.build)
       THEN Catch(j, "ReferenceError")
     ELSE IF ~diskOk
       THEN Catch(j, "writeFile")
     ELSE /\ pc' = [pc EXCEPT ![j] = "push"]
          /\ error' = error
  /\ UNCHANGED <<env, req, response, log, written, generated, files, readme, repo,
                 result, notifyBody, i, delay, posts, waits, repos, backend>>
  /\ dirs' = dirs \cup {TmpDir(j, "b")}
  /\ UNCHANGED <<now, repoName, taskName, derived>>

\* a push whose rejection is logged and then ignored
Push_LogAndContinue(j, answer) ==
  /\ pc[j] = "push"
  /\ answer \in HostAnswers
  /\ IF answer = "ok"
       THEN /\ repos' = {IF r.job = j THEN [r EXCEPT !.pushed = TRUE] ELSE r : r \in repos}
            /\ error' = error
       ELSE /\ repos' = repos
            /\ error' = [error EXCEPT ![j] = "push"]
  /\ pc' = [pc EXCEPT ![j] = "getCommit"]
  /\ UNCHANGED <<env, req, response, log, written, generated, files, readme, repo,
                 result, notifyBody, i, delay, posts, waits, backend>>
  /\ UNCHANGED <<now, repoName, dirs, taskName, derived>>

\* git.push(['-u', 'origin', 'main'])
Push(j, answer) ==
  /\ pc[j] = "push"
  /\ answer \in HostAnswers
  /\ IF answer = "ok"
       THEN /\ repos' = {IF r.job = j THEN [r EXCEPT !.pushed = TRUE] ELSE r : r \in repos}
            /\ pc' = [pc EXCEPT ![j] = "getCommit"]
            /\ error' = error
       ELSE /\ Catch(j, "push")
            /\ repos' = repos
  /\ UNCHANGED <<env, req, response, log, written, generated, files, readme, repo,
                 result, notifyBody, i, delay, posts, waits, backend>>
  /\ UNCHANGED <<now, repoName, dirs, taskName, derived>>

\* the Callback Payload built by the handler
NotifyBody(p, res) ==
  [email |-> p.email, task |-> p.task, round |-> p.round, nonce |-> p.nonce,
   repo_url |-> res.repo_url, commit_sha |-> res.commit_sha, deploy_url |-> Null]

\* octokit.repos.getCommit answers and createGithubRepoAndPush returns; the
\* handler builds notifyBody and calls notifyEvaluationUrl, which sets
\* delay = 1000 and i = 0 and makes its first axios.post.
GetCommit(j, answer, sha) ==
  /\ pc[j] = "getCommit"
  /\ answer \in HostAnswers
  /\ IF answer = "ok"
       THEN LET res == [repo_url |-> repo[j], commit_sha |-> Str(sha)]
            IN  /\ result' = [result EXCEPT ![j] = res]
                /\ notifyBody' = [notifyBody EXCEPT ![j] = NotifyBody(req[j], res)]
                /\ i' = [i EXCEPT ![j] = 0]
                /\ delay' = [delay EXCEPT ![j] = InitialDelay]
                /\ log' = [log EXCEPT ![j] = Append(@, "notifyEvaluationUrl")]
                /\ pc' = [pc EXCEPT ![j] = "post"]
                /\ error' = error
       ELSE /\ Catch(j, "getCommit")
            /\ UNCHANGED <<result, notifyBody, i, delay, log>>
  /\ UNCHANGED <<env, req, response, written, generated, files, readme, repo,
                 posts, waits, repos, backend>>
  /\ UNCHANGED <<now, repoName, dirs, taskName, derived>>

(***************************************************************************)
(* notifyEvaluationUrl                                                     *)
(***************************************************************************)
\* what one axios.post may end with: a 2xx response, another status (axios
\* rejects it), or a transport failure or timeout
TargetAnswers == IF env.world = "cooperative" THEN {"2xx"} ELSE {"2xx", "non2xx", "failure"}

\* resp.status >= 200 && resp.status < 300, reached only when axios resolved
Delivered(answer) == answer = "2xx"

\* an attempt that marks the retries in the body it sends
Post_MarkRetry(j, answer) ==
  /\ pc[j] = "post"
  /\ answer \in TargetAnswers
  /\ posts' = [posts EXCEPT ![j] =
                 Append(@, [url |-> req[j].evaluation_url,
                            body |-> IF i[j] = 0 THEN notifyBody[j]
                                     ELSE [notifyBody[j] EXCEPT !.nonce = Str("retry")],
                            delivered |-> Delivered(answer)])]
  /\ pc' = [pc EXCEPT ![j] = IF Delivered(answer) THEN "done" ELSE "sleep"]
  /\ UNCHANGED <<env, req, response, log, written, generated, files, readme, repo,
                 result, notifyBody, i, delay, waits, error, repos, backend>>
  /\ UNCHANGED <<now, repoName, dirs, taskName, derived>>

\* One pass of the try block: axios.post(evaluation_url, body).  A 2xx
\* response returns from notifyEvaluationUrl and the handler logs
\* 'Notified evaluation_url'; anything else goes on to the wait.
Post(j, answer) ==
  /\ pc[j] = "post"
  /\ answer \in TargetAnswers
  /\ posts' = [posts EXCEPT ![j] =
                 Append(@, [url |-> req[j].evaluation_url, body |-> notifyBody[j],
                            delivered |-> Delivered(answer)])]
  /\ pc' = [pc EXCEPT ![j] = IF Delivered(answer) THEN "done" ELSE "sleep"]
  /\ UNCHANGED <<env, req, response, log, written, generated, files, readme, repo,
                 result, notifyBody, i, delay, waits, error, repos, backend>>
  /\ UNCHANGED <<now, repoName, dirs, taskName, derived>>

\* the loop condition letting one more pass run
LoopContinues_OffByOne(n) == n <= maxRetries

\* i < maxRetries, the loop condition
LoopContinues(n) == n < maxRetries

\* the loop body waiting on a timer that never fires
Sleep_Forever(j) ==
  /\ pc[j] = "sleep"
  /\ UNCHANGED vars

\* The rest of the loop body after a failed attempt: the setTimeout of delay
\* milliseconds elapses, delay doubles, i++ runs and the loop condition is
\* tested; when it fails notifyEvaluationUrl throws.
Sleep(j) ==
  /\ pc[j] = "sleep"
  /\ waits' = [waits EXCEPT ![j] = Append(@, delay[j])]
  /\ delay' = [delay EXCEPT ![j] = @ * 2]
  /\ i' = [i EXCEPT ![j] = @ + 1]
  /\ IF LoopContinues(i[j] + 1)
       THEN /\ pc' = [pc EXCEPT ![j] = "post"]
            /\ error' = error
       ELSE Catch(j, "notifyEvaluationUrl")
  /\ UNCHANGED <<env, req, response, log, written, generated, files, readme, repo,
                 result, notifyBody, posts, repos, backend>>
  /\ UNCHANGED <<now, repoName, dirs, taskName, derived>>

\* the clock advances
Tick(t) ==
  /\ Before(now, t)
  /\ now' = t
  /\ UNCHANGED <<env, pc, req, response, log, written, generated, files, readme,
                 repo, result, notifyBody, i, delay, posts, waits, error, repos,
                 backend, repoName, dirs, taskName, derived>>

(***************************************************************************)
(* The specification: the requests of Jobs, handled within one reading of  *)
(* the clock.                                                              *)
(***************************************************************************)
Next ==
  \/ \E j \in Jobs : \E p \in Pool(j) : Receive(j, p)
  \/ \E j \in Jobs : WriteAttachmentsReturns(j)
  \/ \E j \in Jobs : WriteAttachmentsThrows(j)
  \/ \E j \in Jobs, reply \in BackendReplies \cup {"no backend"} : Generate(j, reply)
  \/ \E j \in Jobs, answer \in {"ok", "rejected"}, url \in HostUrls : CreateRepo(j, answer, url)
  \/ \E j \in Jobs, diskOk \in BOOLEAN : WriteTree(j, diskOk)
  \/ \E j \in Jobs, answer \in {"ok", "rejected"} : Push(j, answer)
  \/ \E j \in Jobs, answer \in {"ok", "rejected"}, sha \in HostShas : GetCommit(j, answer, sha)
  \/ \E j \in Jobs, answer \in {"2xx", "non2xx", "failure"} : Post(j, answer)
  \/ \E j \in Jobs : Sleep(j)

Spec == Init /\ [][Next]_vars

(***************************************************************************)
(* The specification of one request followed to its end.  Every            *)
(* continuation that is ready runs: the event loop resumes the handler     *)
(* when the call it awaits returns or fails, and every timer fires.        *)
(***************************************************************************)
FairJobs == {j \in Jobs : \A k \in Jobs : j <= k}

NextFair ==
  \/ \E j \in FairJobs : \E p \in Pool(j) : Receive(j, p)
  \/ \E j \in FairJobs : WriteAttachmentsReturns(j)
  \/ \E j \in FairJobs : WriteAttachmentsThrows(j)
  \/ \E j \in FairJobs, reply \in BackendReplies \cup {"no backend"} : Generate(j, reply)
  \/ \E j \in FairJobs, answer \in {"ok", "rejected"}, url \in HostUrls : CreateRepo(j, answer, url)
  \/ \E j \in FairJobs, diskOk \in BOOLEAN : WriteTree(j, diskOk)
  \/ \E j \in FairJobs, answer \in {"ok", "rejected"} : Push(j, answer)
  \/ \E j \in FairJobs, answer \in {"ok", "rejected"}, sha \in HostShas : GetCommit(j, answer, sha)
  \/ \E j \in FairJobs, answer \in {"2xx", "non2xx", "failure"} : Post(j, answer)
  \/ \E j \in FairJobs : Sleep(j)

FairSpec == Init /\ [][NextFair]_vars /\ WF_vars(NextFair)

(***************************************************************************)
(* The specification of concurrent requests: the handlers of ConcJobs      *)
(* interleave at their awaits while the clock advances.                    *)
(***************************************************************************)
NextConc ==
  \/ \E j \in ConcJobs : \E p \in ConcPool : Receive(j, p)
  \/ \E j \in ConcJobs : WriteAttachmentsReturns(j)
  \/ \E j \in ConcJobs : WriteAttachmentsThrows(j)
  \/ \E j \in ConcJobs, reply \in BackendReplies \cup {"no backend"} : Generate(j, reply)
  \/ \E j \in ConcJobs, answer \in {"ok", "rejected"}, url \in HostUrls : CreateRepo(j, answer, url)
  \/ \E j \in ConcJobs, diskOk \in BOOLEAN : WriteTree(j, diskOk)
  \/ \E j \in ConcJobs, answer \in {"ok", "rejected"} : Push(j, answer)
  \/ \E j \in ConcJobs, answer \in {"ok", "rejected"}, sha \in HostShas : GetCommit(j, answer, sha)
  \/ \E j \in ConcJobs, answer \in {"2xx", "non2xx", "failure"} : Post(j, answer)
  \/ \E j \in ConcJobs : Sleep(j)
  \/ \E t \in Times : Tick(t)

\* the build of part_000, started without an OpenAI key
InitConc ==
  /\ Init
  /\ env.build = "part_000"
  /\ ~env.openai

SpecConc == InitConc /\ [][NextConc]_vars

(***************************************************************************)
(* The specification of the repository name: shortName and the timestamp   *)
(* fragment applied to task names, character by character.                 *)
(***************************************************************************)
\* characters of each kind the regular expression tells apart: a lower-case
\* letter, an upper-case letter, a digit, the hyphen, and two outside the class
Alphabet == {"a", "Z", "7", "-", " ", "_"}

HelloWorld ==
  <<"H", "e", "l", "l", "o", ",", " ", "W", "o", "r", "l", "d", "!", " ", "2", "0", "2", "4">>

\* task names: every head over Alphabet of up to MaxHead characters, alone or
\* followed by enough characters to reach or pass SlugLength
TaskNames ==
  {HelloWorld} \cup
  {head \o [k \in 1..n |-> "x"] :
     head \in SeqsUpTo(Alphabet, MaxHead) \ {<<>>},
     n \in {0, SlugLength - 2, SlugLength - 1, SlugLength}}

InitName ==
  /\ Idle
  /\ now \in Times
  /\ taskName \in TaskNames
  /\ derived = <<>>

\* repoName = `${shortName(task)}-${Date.now().toString(36).slice(-6)}`
DeriveName ==
  /\ derived = <<>>
  /\ derived' = RepoName(taskName, now)
  /\ UNCHANGED <<env, pc, req, response, log, written, generated, files, readme,
                 repo, result, notifyBody, i, delay, posts, waits, error, repos,
                 backend, now, repoName, dirs, taskName>>

NextName == DeriveName

SpecName == InitName /\ [][NextName]_vars

(***************************************************************************)
(* Properties.                                                             *)
(***************************************************************************)
Accepted(j) == response[j] = Json(200, "status", "accepted")

PipelineCalls ==
  {"writeAttachments", "generateFilesWithLLM", "createGithubRepoAndPush", "notifyEvaluationUrl"}

NoPipeline(j) ==
  /\ \A k \in DOMAIN log[j] : log[j][k] \notin PipelineCalls
  /\ posts[j] = <<>>
  /\ \A r \in repos : r.job # j

\* C1: the acceptance response of a request is sent before the Repository
\* Publisher or the Callback Notifier is invoked for it: every call of
\* createGithubRepoAndPush or notifyEvaluationUrl in the history of a request
\* comes after its 200 response, and every repository and POST belongs to a
\* request that was answered 200.
AckBeforePublishAndNotify ==
  \A j \in Jobs :
    /\ \A k \in DOMAIN log[j] :
         log[j][k] \in {"createGithubRepoAndPush", "notifyEvaluationUrl"} =>
           /\ Accepted(j)
           /\ \E m \in 1..(k - 1) : log[j][m] = "accepted"
    /\ (posts[j] # <<>> \/ \E r \in repos : r.job = j) => Accepted(j)

AckBeforePublishAndNotify_Witness ==
  \E j \in Jobs :
    /\ Accepted(j)
    /\ Has(log[j], "createGithubRepoAndPush")
    /\ Has(log[j], "notifyEvaluationUrl")
    /\ posts[j] # <<>>

\* C2: a request that lacks one of email, task, round, nonce, evaluation_url is
\* answered 400 and nothing of the pipeline runs for it: no attachment is
\* written, nothing is generated, no repository is created, no POST is sent.
MissingFieldRejected ==
  \A j \in Jobs :
    (pc[j] # "idle" /\ \E f \in RequiredFields : req[j][f] = Undef) =>
      /\ response[j] = Json(400, "error", "missing required fields")
      /\ pc[j] = "closed"
      /\ NoPipeline(j)
      /\ written[j] = <<>>
      /\ generated[j] = Undef

MissingFieldRejected_Witness ==
  \E j \in Jobs :
    /\ pc[j] = "closed"
    /\ req[j].evaluation_url = Undef
    /\ \A f \in RequiredFields \ {"evaluation_url"} : Truthy(req[j][f])
    /\ req[j].secret = DEFAULT_SECRET
    /\ response[j].status = 400

\* the secret a request is expected to carry: the Secret Store entry of a known
\* email, the fallback default of an unknown one
ExpectedSecret(email) ==
  IF email = Str("student@example.com") THEN Str("demo-secret") ELSE Str("demo-secret")

AllPresent(p) == \A f \in RequiredFields : p[f] # Undef

\* C3: a request that has all five required fields and whose secret differs
\* from the expected secret (an absent secret differs) is answered 401 and
\* nothing of the pipeline runs for it.
WrongSecretUnauthorized ==
  \A j \in Jobs :
    (pc[j] # "idle" /\ AllPresent(req[j]) /\ req[j].secret # ExpectedSecret(req[j].email)) =>
      /\ response[j] = Json(401, "error", "invalid secret")
      /\ NoPipeline(j)

\* C4: a request in which the five required fields are present, whatever their
\* values, and the secret is the expected one is answered 200 with the
\* acknowledgment and its pipeline starts; a 400 is answered only when one of
\* the five fields is missing.
PresentFieldsAccepted ==
  \A j \in Jobs :
    pc[j] # "idle" =>
      /\ (AllPresent(req[j]) /\ req[j].secret = ExpectedSecret(req[j].email)) =>
           /\ Accepted(j)
           /\ Has(log[j], "writeAttachments")
      /\ response[j].status = 400 => ~AllPresent(req[j])

AllFailed(j) == \A k \in DOMAIN posts[j] : ~posts[j][k].delivered

\* C5: notifyEvaluationUrl makes at most 5 attempts; only the last attempt of a
\* call can be a delivered one, so no attempt follows a 2xx and a first
\* attempt that gets a 2xx is the only one; while its attempts all fail it goes
\* on until the 5th, and it signals the failure after exactly 5 failed attempts.
NotifierAttempts ==
  \A j \in Jobs :
    /\ Len(posts[j]) <= 5
    /\ \A k \in 1..(Len(posts[j]) - 1) : ~posts[j][k].delivered
    /\ pc[j] = "done" => posts[j] # <<>> /\ posts[j][Len(posts[j])].delivered
    /\ error[j] = "notifyEvaluationUrl" => Len(posts[j]) = 5 /\ AllFailed(j)
    /\ (Has(log[j], "notifyEvaluationUrl") /\ AllFailed(j) /\ Len(posts[j]) < 5) =>
         pc[j] \in {"post", "sleep"}

NotifierAttempts_Witness ==
  \E j \in Jobs :
    /\ error[j] = "notifyEvaluationUrl"
    /\ pc[j] = "failed"
    /\ Len(posts[j]) = 5
    /\ AllFailed(j)

\* C6: when every attempt fails, the waits of notifyEvaluationUrl up to the
\* signalled failure are exactly 1s, 2s, 4s, 8s: one between consecutive
\* attempts and none after the 5th.
BackoffWaits ==
  \A j \in Jobs :
    error[j] = "notifyEvaluationUrl" => waits[j] = <<1000, 2000, 4000, 8000>>

\* the attachments of the request include one that cannot be written
HasBrokenAttachment(p) ==
  \E k \in DOMAIN AttachmentList(p) :
    LET a == AttachmentList(p)[k]
    IN  Truthy(a.name) /\ Truthy(a.url) /\ a.url.val \notin DataUris

\* C7: a failure of the attachment materialization does not end an accepted
\* job: the job goes on to the generator, then (the generator having returned)
\* to the publisher, then (the publisher having returned) to the notifier.
MaterializationFailureNonFatal ==
  \A j \in Jobs :
    (Accepted(j) /\ HasBrokenAttachment(req[j]) /\ Terminal(j)) =>
      /\ Has(log[j], "generateFilesWithLLM")
      /\ ~env.openai => Has(log[j], "createGithubRepoAndPush")
      /\ result[j] # NoResult => Has(log[j], "notifyEvaluationUrl")

\* the backend call rejected, or returned something that is no artifact set
BackendFailed(j) ==
  backend[j] \in {"reject", "null", "Sure! Here is your app"}

\* C8: whatever fails inside the generator, it raises nothing past its
\* boundary and returns a usable artifact set, and the job goes on to the
\* publisher and, the publisher having returned, to the notifier.
GenerationFailureNonFatal ==
  \A j \in Jobs :
    BackendFailed(j) =>
      /\ error[j] \notin {"generateFilesWithLLM", "TypeError"}
      /\ generated[j].type = "object"
      /\ Has(log[j], "createGithubRepoAndPush")
      /\ result[j] # NoResult => Has(log[j], "notifyEvaluationUrl")

PublishErrors == {"createForAuthenticatedUser", "ReferenceError", "writeFile", "push", "getCommit"}

\* C9: when createGithubRepoAndPush fails (the creation is rejected, or a
\* later step such as the push fails) the job ends there: notifyEvaluationUrl
\* is never called, no POST goes to the callback URL, and the publish ran once.
PublishFailureEndsJob ==
  \A j \in Jobs :
    error[j] \in PublishErrors =>
      /\ pc[j] = "failed"
      /\ ~Has(log[j], "notifyEvaluationUrl")
      /\ posts[j] = <<>>
      /\ Count(log[j], "createGithubRepoAndPush") = 1
      /\ Cardinality({r \in repos : r.job = j}) <= 1

PublishFailureEndsJob_Witness ==
  \E j \in Jobs :
    /\ error[j] = "push"
    /\ pc[j] = "failed"
    /\ \E r \in repos : r.job = j /\ ~r.pushed

\* C10: a valid request with no attachments, with no generation backend
\* configured, a repository host that accepts and a callback target that
\* answers 2xx, is answered with the acknowledgment and ends with exactly one
\* POST to its evaluation_url, carrying its email, task, round and nonce, the
\* repo_url and commit_sha of the publisher, and deploy_url null.
EndToEndOnePost ==
  \A j \in Jobs :
    (/\ ~env.openai
     /\ env.world = "cooperative"
     /\ pc[j] # "idle"
     /\ req[j] = EndToEndRequest) =>
      /\ Accepted(j)
      /\ Terminal(j) =>
           /\ Len(posts[j]) = 1
           /\ posts[j][1].url = Str("http://test/cb")
           /\ posts[j][1].body =
                [email |-> Str("student@example.com"), task |-> Str("My Task"),
                 round |-> Num(1), nonce |-> Str("n1"),
                 repo_url |-> result[j].repo_url, commit_sha |-> result[j].commit_sha,
                 deploy_url |-> Null]
           /\ result[j].repo_url.type = "string"
           /\ \E r \in repos : r.job = j /\ r.pushed /\ Str(r.html_url) = result[j].repo_url

\* C11: the Callback Payload of a job is built once, before the first attempt,
\* from the email, task, round and nonce of the request and the Publish Result,
\* with deploy_url null, and it does not change afterwards: every attempt of
\* the job, the first and each retry, sends that same body.
PayloadFixed ==
  \A j \in Jobs :
    Has(log[j], "notifyEvaluationUrl") =>
      /\ result[j] # NoResult
      /\ notifyBody[j] =
           [email |-> req[j].email, task |-> req[j].task, round |-> req[j].round,
            nonce |-> req[j].nonce, repo_url |-> result[j].repo_url,
            commit_sha |-> result[j].commit_sha, deploy_url |-> Null]
      /\ \A k \in DOMAIN posts[j] : posts[j][k].body = notifyBody[j]

PayloadFixed_Witness ==
  \E j \in Jobs :
    /\ Len(posts[j]) >= 3
    /\ ~posts[j][1].delivered
    /\ posts[j][3].body = posts[j][1].body

\* the calls of the pipeline, in the order the handler makes them
PipelineOrder ==
  <<"accepted", "writeAttachments", "generateFilesWithLLM", "createGithubRepoAndPush",
    "notifyEvaluationUrl">>

\* C12: within one job the steps run one after the other, in the order
\* materialize, generate, derive the repository name, publish, build the
\* payload, notify: the generator is called only after writeAttachments has
\* returned, the name is derived and the publisher is called only after the
\* generator has returned, and the payload is built and the notifier is called
\* only after the publisher has returned a Publish Result.
StepsInOrder ==
  \A j \in Jobs :
    /\ Len(log[j]) <= Len(PipelineOrder)
    /\ log[j] = SubSeq(PipelineOrder, 1, Len(log[j]))
    /\ Has(log[j], "generateFilesWithLLM") => pc[j] # "writeAttachments"
    /\ repoName[j] # <<>> => generated[j] # Undef
    /\ Has(log[j], "createGithubRepoAndPush") =>
         /\ generated[j] # Undef
         /\ repoName[j] # <<>>
         /\ pc[j] # "generate"
    /\ (\E r \in repos : r.job = j) => Has(log[j], "createGithubRepoAndPush")
    /\ notifyBody[j] # Undef => result[j] # NoResult
    /\ Has(log[j], "notifyEvaluationUrl") =>
         /\ result[j] # NoResult
         /\ notifyBody[j] # Undef
         /\ \E r \in repos : r.job = j /\ r.pushed
    /\ posts[j] # <<>> => Has(log[j], "notifyEvaluationUrl")

StepsInOrder_Witness ==
  \E j \in Jobs :
    /\ pc[j] = "done"
    /\ log[j] = PipelineOrder
    /\ written[j] # <<>>

\* C13: concurrent jobs do not see each other: the Callback Payload of a job
\* carries the fields of its own request and its own Publish Result, and the
\* outcome of a job is the one it has alone, so that a valid job whose
\* external parties all answer favourably is delivered whatever the other jobs
\* do.
JobsIsolated ==
  \A j \in ConcJobs :
    /\ notifyBody[j] # Undef =>
         /\ notifyBody[j].nonce = req[j].nonce
         /\ notifyBody[j].email = req[j].email
         /\ notifyBody[j].repo_url = result[j].repo_url
         /\ \E r \in repos : r.job = j /\ r.name = repoName[j]
    /\ (env.world = "cooperative" /\ Accepted(j) /\ Terminal(j)) => pc[j] = "done"

SubmissionKey(p) == <<p.email, p.task, p.round, p.nonce>>

\* C14: every accepted request is processed by exactly one run of the
\* pipeline, a run calls the publisher at most once and creates at most one
\* repository, and nothing is deduplicated: whether a request is accepted
\* depends on its own fields and secret only, so two submissions with the same
\* (email, task, round, nonce) are both accepted and both processed.
OneRunPerRequest ==
  \A j \in ConcJobs :
    /\ pc[j] # "idle" =>
         (Accepted(j) <=> (~MissingRequired(req[j]) /\ verifySecret(req[j].email, req[j].secret)))
    /\ Accepted(j) =>
         /\ Count(log[j], "accepted") = 1
         /\ Count(log[j], "writeAttachments") = 1
    /\ ~Accepted(j) => NoPipeline(j)
    /\ Count(log[j], "createGithubRepoAndPush") <= 1
    /\ Cardinality({r \in repos : r.job = j}) <= 1

OneRunPerRequest_Witness ==
  \E j, k \in ConcJobs :
    /\ j # k
    /\ SubmissionKey(req[j]) = SubmissionKey(req[k])
    /\ pc[j] = "done" /\ pc[k] = "done"
    /\ \E r, q \in repos : r.job = j /\ q.job = k /\ r.name # q.name

\* the character the claim puts in the slug for a character of the task name
SlugChar(c) ==
  LET l == toLowerCase(<<c>>)[1]
  IN  IF l \in Elems(LowerCase) \cup Elems(Digits) \cup {"-"} THEN l ELSE "-"

\* C15: the repository name derived from a task name is the task name
\* lower-cased with every character outside [a-z0-9-] replaced by a hyphen, cut
\* to 40 characters, then a hyphen, then a fragment of 6 base-36 characters of
\* the clock; the whole name has characters of [a-z0-9-] only, and the slug of
\* "Hello, World! 2024" is "hello--world--2024".
RepoNameShape ==
  derived # <<>> =>
    LET n == IF Len(taskName) < SlugLength THEN Len(taskName) ELSE SlugLength
    IN  /\ Len(derived) = n + 1 + FragmentLength
        /\ \A k \in 1..n : derived[k] = SlugChar(taskName[k])
        /\ derived[n + 1] = "-"
        /\ SubSeq(derived, n + 2, Len(derived)) = SliceLast(DateToString36(now), FragmentLength)
        /\ \A k \in DOMAIN derived : derived[k] \in Elems(LowerCase) \cup Elems(Digits) \cup {"-"}
        /\ taskName = HelloWorld =>
             SubSeq(derived, 1, n) =
               <<"h", "e", "l", "l", "o", "-", "-", "w", "o", "r", "l", "d", "-", "-",
                 "2", "0", "2", "4">>

RepoNameShape_Witness ==
  /\ derived # <<>>
  /\ Len(taskName) > SlugLength
  /\ taskName[1] = "Z"
  /\ taskName[2] = " "
  /\ Len(derived) = SlugLength + 1 + FragmentLength

\* C16: two accepted jobs with the same task name, concurrent ones included,
\* derive different repository names, so the create-repository request of a
\* repeated submission never meets a name that is taken.
RepoNamesUnique ==
  \A j, k \in ConcJobs :
    (j # k /\ repoName[j] # <<>> /\ repoName[k] # <<>> /\ req[j].task = req[k].task) =>
      /\ repoName[j] # repoName[k]
      /\ pc[j] = "createRepo" => ~NameTaken(repoName[j])

\* a JSON object with a files array and a readme string
ExpectedShape(parsed) ==
  /\ ~parsed.threw
  /\ parsed.value.type = "object"
  /\ parsed.value.val.files.type = "array"
  /\ parsed.value.val.readme.type = "string"

\* C17: with a generation backend configured, a response that does not parse
\* as a JSON object of the shape {files, readme} makes the generator return the
\* parse-failure fallback, an artifact set of one informational file and a
\* readme, and that readme is not the readme of the fallback used without a
\* backend, which has one file and a readme containing the brief.
ParseFailureFallback ==
  \A j \in Jobs :
    (env.openai /\ backend[j] \in BackendTexts /\ ~ExpectedShape(JSONParse(backend[j]))) =>
      /\ generated[j] = ParseFailedApp
      /\ Len(generated[j].val.files.val) = 1
      /\ \A brief \in {Str("Auto app"), Str("todo app")} :
           /\ generated[j].val.readme # MockApp(brief).val.readme
           /\ Len(MockApp(brief).val.files.val) = 1
           /\ MockApp(brief).val.readme = Str("# Auto-generated app\n\nBrief: " \o brief.val)

\* C18: the temporary directories of a job, the one the attachments are
\* written to and the one the publisher builds the working tree in, are
\* created for that job, are used by no other job, and are removed by the time
\* the job has reached its terminal outcome.
WorkingDirsRemoved ==
  \A j \in Jobs :
    /\ \A k \in AllJobs \ {j} : \A u, v \in {"a", "b"} : TmpDir(j, u) # TmpDir(k, v)
    /\ TmpDir(j, "a") # TmpDir(j, "b")
    /\ Terminal(j) => (TmpDir(j, "a") \notin dirs /\ TmpDir(j, "b") \notin dirs)

\* C19: an accepted job reaches a terminal outcome, whatever the external
\* calls answer; the notifier makes at most maxRetries attempts; and when the
\* attempts are used up the job ends there, in the catch block of the handler,
\* and does nothing more.
JobTerminates ==
  \A j \in FairJobs :
    /\ Accepted(j) ~> Terminal(j)
    /\ [](Len(posts[j]) <= maxRetries)
    /\ []((Len(posts[j]) = maxRetries /\ ~posts[j][maxRetries].delivered /\ pc[j] # "sleep")
            => (pc[j] = "failed" /\ error[j] = "notifyEvaluationUrl"))

JobTerminates_Witness ==
  \E j \in FairJobs :
    /\ Accepted(j)
    /\ pc[j] = "failed"
    /\ error[j] = "notifyEvaluationUrl"
    /\ Len(waits[j]) = maxRetries

\* C20: whatever the names of the attachments, every file writeAttachments
\* writes lies inside the temporary directory of the job, and an attachment
\* without a name or without a url is skipped.
AttachmentsInsideDir ==
  \A j \in Jobs :
    /\ \A k \in DOMAIN written[j] : Inside(Resolve(written[j][k]), TmpDir(j, "a"))
    /\ Len(written[j]) <= Len(Writable(AttachmentList(req[j])))

====
